---- MODULE Spec2Model ----
(***************************************************************************)
(* The stdio JSON-RPC helper of the Python language server                 *)
(* (src/Analysis/Ast/Impl/inspector.py): Content-Length framing on stdin,  *)
(* decoding into a Request, dispatch through Mux.handle to the registered  *)
(* handlers, and one framed response per request on stdout.                *)
(*                                                                         *)
(* Bytes are symbols.  "CR" and "LF" are the two line-end bytes, ":" and   *)
(* " " the bytes of the header separator, "0".."9" the digits.  The header *)
(* names "Content-Length" and "Content-Type" are one symbol each.  A body  *)
(* is a JSON document written as one symbol per member of the top-level    *)
(* object ("id=1", "method=moduleVersion", ...); "[]" is the document that *)
(* is an array and "~" a byte that is no JSON.  Lengths count symbols.     *)
(*                                                                         *)
(* A JSON or Python value is a record [t |-> type, v |-> text], the text a *)
(* sequence of strings (a dotted name is the sequence of its components).  *)
(* The output stream accepts every write.                                  *)
(*                                                                         *)
(* The text json.dumps returns is a sequence of characters: "e-acute" and  *)
(* "euro" are characters that are not ASCII (one character, two and three  *)
(* bytes in UTF-8), every other symbol is ASCII text that counts as one    *)
(* character and one byte.  stream is everything stdin holds, so that what *)
(* the loop has read can be compared with read_request as a function of    *)
(* the bytes (ReadFrame).                                                  *)
(*                                                                         *)
(* Spec is the request loop.  FindSpec is find_dist alone, one step for    *)
(* each test of its while loop, on every module name and working set of    *)
(* the bounds.                                                             *)
(***************************************************************************)
EXTENDS Integers, Sequences, FiniteSets, TLC

\* Frames the host sends before it closes or breaks the stream.
MaxFrames == 2

METHOD_NOT_FOUND == -32601
INTERNAL_ERROR == -32603

CR == "CR"
LF == "LF"
CRLF == <<CR, LF>>
ContentLength == <<"Content-Length">>
Digits == <<"0", "1", "2", "3", "4", "5", "6", "7", "8", "9">>
Whitespace == {" ", CR, LF}

----------------------------------------------------------------------------
\* Values

JNull == [t |-> "null", v |-> <<>>]
JNum(n) == [t |-> "num", v |-> <<n>>]
JStr(parts) == [t |-> "str", v |-> parts]
JEmptyList == [t |-> "list", v |-> <<>>]
\* what module_member_names returns for a module it could import
MembersDict == [t |-> "dict", v |-> <<"members", "all">>]
\* the same with an __all__ that json cannot encode (a set, bytes, ...)
MembersDictBadAll == [t |-> "dict_with_object", v |-> <<"members", "all">>]
\* a __version__ attribute that json cannot encode
PyObject == [t |-> "object", v |-> <<>>]

None == JNull

\* bool(v) of Python for the values of the model
Truthy(v) ==
    CASE v.t = "null" -> FALSE
      [] v.t = "str" -> v.v # <<"">>
      [] v.t = "num" -> v.v # <<"0">>
      [] v.t = "list" -> v.v # <<>>
      [] OTHER -> TRUE

\* hash(v) succeeds: a dict key may be of this type
Hashable(v) == v.t \in {"null", "num", "str"}

\* json.dumps(v) succeeds
Encodable(v) == v.t \in {"null", "num", "str", "list", "dict"}

\* str(v) / "{}".format(v)
Text(v) == IF v.t = "null" THEN <<"None">> ELSE v.v

\* request.get("params", None): the params of a request
NoParams == [kind |-> "none", items |-> <<>>]
ListParams(items) == [kind |-> "list", items |-> items]

----------------------------------------------------------------------------
\* Sequences of bytes

Min(a, b) == IF a < b THEN a ELSE b

Drop(s, n) == SubSeq(s, n + 1, Len(s))

RECURSIVE Concat(_)
Concat(ss) == IF ss = <<>> THEN <<>> ELSE Head(ss) \o Concat(Tail(ss))

\* bytes.endswith(b"\r\n")
EndsWithCRLF(s) == Len(s) >= 2 /\ s[Len(s) - 1] = CR /\ s[Len(s)] = LF

\* stdin.readline() on the bytes left: through the first LF, or all of them
FirstLF(s) ==
    IF \E i \in 1..Len(s) : s[i] = LF
    THEN CHOOSE i \in 1..Len(s) : s[i] = LF /\ \A j \in 1..(i - 1) : s[j] # LF
    ELSE Len(s)

\* line.partition(b": "): the place of the first ": ", 0 when there is none
FirstSep(s) ==
    IF \E i \in 1..(Len(s) - 1) : s[i] = ":" /\ s[i + 1] = " "
    THEN CHOOSE i \in 1..(Len(s) - 1) :
            /\ s[i] = ":" /\ s[i + 1] = " "
            /\ \A j \in 1..(i - 1) : ~(s[j] = ":" /\ s[j + 1] = " ")
    ELSE 0

PartitionKey(s) == IF FirstSep(s) = 0 THEN s ELSE SubSeq(s, 1, FirstSep(s) - 1)
PartitionValue(s) == IF FirstSep(s) = 0 THEN <<>> ELSE Drop(s, FirstSep(s) + 1)

\* int(value): surrounding whitespace is skipped, the rest must be digits
RECURSIVE Strip(_)
Strip(s) ==
    IF s = <<>> THEN s
    ELSE IF Head(s) \in Whitespace THEN Strip(Tail(s))
    ELSE IF s[Len(s)] \in Whitespace THEN Strip(SubSeq(s, 1, Len(s) - 1))
    ELSE s

IsDigit(b) == \E n \in 1..10 : Digits[n] = b
DigitVal(b) == (CHOOSE n \in 1..10 : Digits[n] = b) - 1

IsInt(value) ==
    /\ Strip(value) # <<>>
    /\ \A i \in 1..Len(Strip(value)) : IsDigit(Strip(value)[i])

RECURSIVE DigitsVal(_)
DigitsVal(ds) ==
    IF ds = <<>> THEN 0
    ELSE 10 * DigitsVal(SubSeq(ds, 1, Len(ds) - 1)) + DigitVal(ds[Len(ds)])

IntOf(value) == DigitsVal(Strip(value))

----------------------------------------------------------------------------
\* The JSON documents of the model: json.loads and Request.__init__

IdMembers == {"id=1", "id=2", "id=x"}
MethodMembers ==
    {"method=$/cancelRequest", "method=cancelRequest", "method=noSuchMethod",
     "method=moduleMemberNames", "method=moduleVersion", "method=[]"}
ParamsMembers == {"params=[null]", "params=[]", "params=[m]", "params=[a.b]"}
MemberToks == IdMembers \cup MethodMembers \cup ParamsMembers

MemberKey(tok) ==
    CASE tok \in IdMembers -> "id"
      [] tok \in MethodMembers -> "method"
      [] tok \in ParamsMembers -> "params"

\* the value of an "id" or "method" member
MemberVal(tok) ==
    CASE tok = "id=1" -> JNum("1")
      [] tok = "id=2" -> JNum("2")
      [] tok = "id=x" -> JStr(<<"x">>)
      [] tok = "method=$/cancelRequest" -> JStr(<<"$/cancelRequest">>)
      [] tok = "method=cancelRequest" -> JStr(<<"cancelRequest">>)
      [] tok = "method=noSuchMethod" -> JStr(<<"noSuchMethod">>)
      [] tok = "method=moduleMemberNames" -> JStr(<<"moduleMemberNames">>)
      [] tok = "method=moduleVersion" -> JStr(<<"moduleVersion">>)
      [] tok = "method=[]" -> JEmptyList

\* the value of a "params" member
MemberItems(tok) ==
    CASE tok = "params=[null]" -> <<JNull>>
      [] tok = "params=[]" -> <<>>
      [] tok = "params=[m]" -> <<JStr(<<"m">>)>>
      [] tok = "params=[a.b]" -> <<JStr(<<"a", "b">>)>>

ArrayDoc == <<"[]">>

\* json.loads(body) succeeds (an object has at least one member here)
IsJSON(bytes) ==
    \/ bytes = ArrayDoc
    \/ bytes # <<>> /\ \A i \in 1..Len(bytes) : bytes[i] \in MemberToks

\* the keys of the decoded object
Keys(bytes) == {MemberKey(bytes[i]) : i \in 1..Len(bytes)}

\* request[key]: the last member with that key wins
Member(bytes, key) ==
    bytes[CHOOSE i \in 1..Len(bytes) :
            /\ MemberKey(bytes[i]) = key
            /\ \A j \in (i + 1)..Len(bytes) : MemberKey(bytes[j]) # key]

\* What json.loads(body) and then Request(request) raise, "" when nothing
DecodeFault(bytes) ==
    CASE ~IsJSON(bytes) -> "ValueError"
      [] bytes = ArrayDoc -> "TypeError"
      [] "id" \notin Keys(bytes) -> "KeyError"
      [] "method" \notin Keys(bytes) -> "KeyError"
      [] OTHER -> ""

\* Request.__init__
NewRequest(bytes) ==
    [id |-> MemberVal(Member(bytes, "id")),
     method |-> MemberVal(Member(bytes, "method")),
     params |-> IF "params" \in Keys(bytes)
                THEN ListParams(MemberItems(Member(bytes, "params")))
                ELSE NoParams]

NoRequest == [id |-> JNull, method |-> JNull, params |-> NoParams]

----------------------------------------------------------------------------
\* What the host sends

RECURSIVE Decimal(_)
Decimal(n) ==
    IF n < 10 THEN <<Digits[n + 1]>>
    ELSE Decimal(n \div 10) \o <<Digits[(n % 10) + 1]>>

LengthLine(n) == ContentLength \o <<":", " ">> \o Decimal(n)

RECURSIVE HeaderBlock(_)
HeaderBlock(lines) ==
    IF lines = <<>> THEN CRLF
    ELSE Head(lines) \o CRLF \o HeaderBlock(Tail(lines))

Frame(lines, bytes) == HeaderBlock(lines) \o bytes

\* a well-formed frame around a body
Req(bytes) == Frame(<<LengthLine(Len(bytes))>>, bytes)

WellFormedBodies ==
    {<<"id=1", "method=$/cancelRequest", "params=[null]">>,
     <<"id=2", "method=cancelRequest", "params=[null]">>,
     <<"id=x", "method=noSuchMethod", "params=[]">>,
     <<"id=2", "method=moduleMemberNames", "params=[m]">>,
     <<"id=x", "method=moduleVersion", "params=[a.b]">>,
     <<"id=1", "method=$/cancelRequest">>,
     <<"id=1", "method=$/cancelRequest", "params=[]">>}

OtherBodies ==
    {<<"id=1">>,
     <<"method=noSuchMethod">>,
     <<"~">>,
     ArrayDoc,
     <<"id=1", "method=[]", "params=[]">>}

BadFrames ==
    {Frame(<< <<"Content-Type", ":", " ", "1">> >>, <<"id=1">>),
     Frame(<<ContentLength \o <<":", " ", "~">> >>, <<"id=1">>),
     Frame(<< <<"Content-Type", ":", " ", "1">>, LengthLine(2)>>,
           <<"id=1", "method=noSuchMethod">>)}

Frames == {Req(b) : b \in WellFormedBodies \cup OtherBodies} \cup BadFrames

Prefixes(s) == {SubSeq(s, 1, k) : k \in 0..Len(s)}

\* every stream of at most MaxFrames frames, cut at any byte
Streams ==
    UNION {Prefixes(Concat(fs)) : fs \in UNION {[1..k -> Frames] : k \in 0..MaxFrames}}

----------------------------------------------------------------------------
\* The state

VARIABLES
    input,          \* stdin: the bytes not read yet
    ending,         \* what a read past the last byte does: "eof" or "error"
    stream,         \* every byte stdin ever holds, read or not
    consumed,       \* the number of bytes read from stdin so far
    pc,             \* where the request loop is
    fault,          \* the exception that left main(), "" when none
    line,           \* read_line: line
    headers,        \* read_request: headers
    length,         \* read_request: length
    body,           \* read_request: body
    request,        \* main: request
    handlers,       \* mux.handlers
    DIST_PREFIXES,  \* the module's global
    find,           \* find_dist: where its while loop is, and module_name
    out,            \* stdout: the responses written and flushed, in order
    served,         \* the requests the generator has yielded, in order
    invoked         \* the handler calls made, in order

transport == <<input, ending, stream, consumed, line, headers, length, body>>
dispatcher == <<request, handlers, DIST_PREFIXES>>
history == <<out, served, invoked>>
vars == <<transport, dispatcher, history, find, pc, fault>>

EmptyDict == <<>>

\* d[key] = value of a dict
DictSet(d, key, value) ==
    [k \in DOMAIN d \cup {key} |-> IF k = key THEN value ELSE d[k]]

\* DIST_PREFIXES = None
NotBuilt == [built |-> FALSE, index |-> EmptyDict]

\* the registry with the cancellation handler under the name "cancelRequest"
RegistryPlainCancel ==
    [m \in {"cancelRequest", "moduleMemberNames", "moduleVersion"} |->
        CASE m = "cancelRequest" -> "cancel_request"
          [] m = "moduleMemberNames" -> "module_member_names"
          [] m = "moduleVersion" -> "module_version"]

\* mux.handlers after the three @mux.handler registrations
Registry ==
    [m \in {"$/cancelRequest", "moduleMemberNames", "moduleVersion"} |->
        CASE m = "$/cancelRequest" -> "cancel_request"
          [] m = "moduleMemberNames" -> "module_member_names"
          [] m = "moduleVersion" -> "module_version"]

\* A distribution: its project name, the lines of its top_level.txt (none
\* when it has no such metadata) and its version
Dist(name, lines, version) ==
    [project_name |-> name, top_level |-> lines, version |-> version]

\* find_dist returns None
NoDist == Dist("", <<>>, None)

\* find_dist is not running
NotCalled == [pc |-> "idle", arg |-> <<"">>, module_name |-> <<"">>, d |-> NoDist, rounds |-> 0]

Init ==
    /\ input \in Streams
    /\ stream = input
    /\ find = NotCalled
    /\ ending \in {"eof", "error"}
    /\ consumed = 0
    /\ pc = "header"
    /\ fault = ""
    /\ line = <<>>
    /\ headers = EmptyDict
    /\ length = 0
    /\ body = <<>>
    /\ request = NoRequest
    /\ handlers = Registry
    /\ DIST_PREFIXES = NotBuilt
    /\ out = <<>>
    /\ served = <<>>
    /\ invoked = <<>>

----------------------------------------------------------------------------
\* read_line and the header loop of read_request

HasLF(s) == \E i \in 1..Len(s) : s[i] = LF

\* stdin.readline() returns: a line through its LF, or at end-of-stream
\* whatever is left (nothing, once nothing is left)
ReadlineReturns == HasLF(input) \/ ending = "eof"

ReadlineChunk == SubSeq(input, 1, FirstLF(input))

\* line += stdin.readline()
LineRead == line \o ReadlineChunk

\* stdin.readline() raises: read_line turns it into EOFError, which
\* requests() takes as the end of the input
ReadLineFails ==
    /\ pc = "header"
    /\ ~ReadlineReturns
    /\ pc' = "closed"
    /\ line' = <<>>
    /\ headers' = EmptyDict
    /\ UNCHANGED <<input, ending, stream, find, consumed, length, body, dispatcher, history, fault>>

\* requests() without its "except EOFError": the EOFError leaves main()
ReadLineEOFUncaught ==
    /\ pc = "header"
    /\ ReadlineReturns
    /\ LineRead = <<>>
    /\ pc' = "fault"
    /\ fault' = "EOFError"
    /\ headers' = EmptyDict
    /\ UNCHANGED <<input, ending, stream, find, consumed, line, length, body, dispatcher, history>>

\* "if not line: raise EOFError", caught by requests(), which returns
ReadLineEOF ==
    /\ pc = "header"
    /\ ReadlineReturns
    /\ LineRead = <<>>
    /\ pc' = "closed"
    /\ headers' = EmptyDict
    /\ UNCHANGED <<input, ending, stream, find, consumed, line, length, body, dispatcher, history, fault>>

\* the line has no CRLF at its end yet: the while loop of read_line goes round
ReadLinePartial ==
    /\ pc = "header"
    /\ ReadlineReturns
    /\ LineRead # <<>>
    /\ ~EndsWithCRLF(LineRead)
    /\ line' = LineRead
    /\ input' = Drop(input, FirstLF(input))
    /\ consumed' = consumed + FirstLF(input)
    /\ UNCHANGED <<ending, stream, find, headers, length, body, dispatcher, history, pc, fault>>

\* read_line returns line[:-2]
LineReturned == SubSeq(LineRead, 1, Len(LineRead) - 2)

\* a header line: headers[key] = value
ReadHeaderLine ==
    /\ pc = "header"
    /\ ReadlineReturns
    /\ EndsWithCRLF(LineRead)
    /\ LineReturned # <<>>
    /\ headers' = DictSet(headers, PartitionKey(LineReturned), PartitionValue(LineReturned))
    /\ line' = <<>>
    /\ input' = Drop(input, FirstLF(input))
    /\ consumed' = consumed + FirstLF(input)
    /\ UNCHANGED <<ending, stream, find, length, body, dispatcher, history, pc, fault>>

\* the blank line in a read_request that takes a missing or malformed
\* Content-Length as 0
ReadBlankLineLenient ==
    /\ pc = "header"
    /\ ReadlineReturns
    /\ EndsWithCRLF(LineRead)
    /\ LineReturned = <<>>
    /\ line' = <<>>
    /\ input' = Drop(input, FirstLF(input))
    /\ consumed' = consumed + FirstLF(input)
    /\ pc' = "body"
    /\ fault' = fault
    /\ length' = IF ContentLength \in DOMAIN headers /\ IsInt(headers[ContentLength])
                 THEN IntOf(headers[ContentLength])
                 ELSE 0
    /\ body' = <<>>
    /\ UNCHANGED <<ending, stream, find, headers, dispatcher, history>>

\* the blank line: length = int(headers[b"Content-Length"]), body = b""
ReadBlankLine ==
    /\ pc = "header"
    /\ ReadlineReturns
    /\ EndsWithCRLF(LineRead)
    /\ LineReturned = <<>>
    /\ line' = <<>>
    /\ input' = Drop(input, FirstLF(input))
    /\ consumed' = consumed + FirstLF(input)
    /\ IF ContentLength \notin DOMAIN headers
       THEN pc' = "fault" /\ fault' = "KeyError" /\ length' = length
       ELSE IF ~IsInt(headers[ContentLength])
       THEN pc' = "fault" /\ fault' = "ValueError" /\ length' = length
       ELSE pc' = "body" /\ fault' = fault /\ length' = IntOf(headers[ContentLength])
    /\ body' = <<>>
    /\ UNCHANGED <<ending, stream, find, headers, dispatcher, history>>

----------------------------------------------------------------------------
\* the body loop of read_request, json.loads and Request()

\* a body loop with "body = chunk" for "body += chunk"
ReadBodyKeepsLastChunk(k) ==
    /\ pc = "body"
    /\ length > 0
    /\ k \in 1..Min(length, Len(input))
    /\ body' = SubSeq(input, 1, k)
    /\ length' = length - k
    /\ input' = Drop(input, k)
    /\ consumed' = consumed + k
    /\ UNCHANGED <<ending, stream, find, line, headers, dispatcher, history, pc, fault>>

\* stdin.read(length) returns k bytes, at least one and at most length
ReadBody(k) ==
    /\ pc = "body"
    /\ length > 0
    /\ k \in 1..Min(length, Len(input))
    /\ body' = body \o SubSeq(input, 1, k)
    /\ length' = length - k
    /\ input' = Drop(input, k)
    /\ consumed' = consumed + k
    /\ UNCHANGED <<ending, stream, find, line, headers, dispatcher, history, pc, fault>>

\* stdin.read(length) returns b"" at end-of-stream: body and length stay
\* as they are and the while loop goes round
ReadBodyEOF ==
    /\ pc = "body"
    /\ length > 0
    /\ input = <<>>
    /\ ending = "eof"
    /\ body' = body \o <<>>
    /\ length' = length - 0
    /\ UNCHANGED <<input, ending, stream, find, consumed, line, headers, dispatcher, history, pc, fault>>

\* a body loop that, like read_line, turns a failed read into EOFError
ReadBodyFailsAsEOF ==
    /\ pc = "body"
    /\ length > 0
    /\ input = <<>>
    /\ ending = "error"
    /\ pc' = "closed"
    /\ UNCHANGED <<transport, find, dispatcher, history, fault>>

\* stdin.read(length) raises: no EOFError, so it leaves requests() and main()
ReadBodyFails ==
    /\ pc = "body"
    /\ length > 0
    /\ input = <<>>
    /\ ending = "error"
    /\ pc' = "fault"
    /\ fault' = "IOError"
    /\ UNCHANGED <<transport, find, dispatcher, history>>

\* length bytes are read: request = json.loads(body); return Request(request);
\* requests() yields it to main()
Decode ==
    /\ pc = "body"
    /\ length <= 0
    /\ IF DecodeFault(body) # ""
       THEN /\ pc' = "fault"
            /\ fault' = DecodeFault(body)
            /\ UNCHANGED <<request, served>>
       ELSE /\ pc' = "dispatch"
            /\ fault' = fault
            /\ request' = NewRequest(body)
            /\ served' = Append(served, [request |-> NewRequest(body), at |-> consumed])
    /\ UNCHANGED <<transport, find, handlers, DIST_PREFIXES, out, invoked>>

----------------------------------------------------------------------------
\* read_request as a function of the bytes stdin holds

\* where the line read_line returns ends: the first CR that an LF follows,
\* 0 when there is none
FirstCRLF(s) ==
    IF \E i \in 1..(Len(s) - 1) : s[i] = CR /\ s[i + 1] = LF
    THEN CHOOSE i \in 1..(Len(s) - 1) :
            /\ s[i] = CR /\ s[i + 1] = LF
            /\ \A j \in 1..(i - 1) : ~(s[j] = CR /\ s[j + 1] = LF)
    ELSE 0

\* the header loop from headers = hdrs on: the dict at the blank line and
\* the bytes after it; no blank line is the end of the input
RECURSIVE ReadHeaders(_, _)
ReadHeaders(bytes, hdrs) ==
    IF FirstCRLF(bytes) = 0
    THEN [fault |-> "EOFError", headers |-> hdrs, rest |-> <<>>]
    ELSE IF FirstCRLF(bytes) = 1
    THEN [fault |-> "", headers |-> hdrs, rest |-> Drop(bytes, 2)]
    ELSE ReadHeaders(Drop(bytes, FirstCRLF(bytes) + 1),
                     DictSet(hdrs,
                             PartitionKey(SubSeq(bytes, 1, FirstCRLF(bytes) - 1)),
                             PartitionValue(SubSeq(bytes, 1, FirstCRLF(bytes) - 1))))

\* read_request up to json.loads on a stream that starts at a frame: the
\* fault it raises ("" when none), the Content-Length, the body (what is
\* there of it when the stream is short) and the bytes left after it
ReadFrame(bytes) ==
    LET h == ReadHeaders(bytes, EmptyDict)
        n == IntOf(h.headers[ContentLength])
    IN  IF h.fault # ""
        THEN [fault |-> h.fault, length |-> 0, body |-> <<>>, rest |-> h.rest]
        ELSE IF ContentLength \notin DOMAIN h.headers
        THEN [fault |-> "KeyError", length |-> 0, body |-> <<>>, rest |-> h.rest]
        ELSE IF ~IsInt(h.headers[ContentLength])
        THEN [fault |-> "ValueError", length |-> 0, body |-> <<>>, rest |-> h.rest]
        ELSE [fault |-> "", length |-> n,
              body |-> SubSeq(h.rest, 1, Min(n, Len(h.rest))),
              rest |-> Drop(h.rest, Min(n, Len(h.rest)))]

----------------------------------------------------------------------------
\* The installed distributions: build_dist_prefixes and find_dist

KNOWN_DIST_PREFIXES ==
    [p \in {"PyQt5", "PyQt5-sip"} |->
        IF p = "PyQt5" THEN << <<"PyQt5">> >> ELSE << <<"PyQt5", "sip">> >>]

DistA == Dist("A", << <<"a">>, <<"">> >>, JStr(<<"1.0">>))
DistAB == Dist("AB", << <<"a", "b">> >>, JStr(<<"2.0">>))
DistQt == Dist("PyQt5", <<>>, JStr(<<"5.1">>))
DistOther == Dist("other", <<>>, JStr(<<"0.1">>))

\* pkg_resources.WorkingSet(), as the environment may hold it
WorkingSets == {<<>>, <<DistOther>>, <<DistA, DistQt>>, <<DistA, DistAB>>}

\* what "import pkg_resources" and the scan may answer
BuildAnswers == {[ok |-> FALSE, ws |-> <<>>]} \cup {[ok |-> TRUE, ws |-> w] : w \in WorkingSets}

\* module_prefixes of one distribution
ModulePrefixes(d) ==
    IF d.top_level # <<>> THEN d.top_level
    ELSE IF d.project_name # "" /\ d.project_name \in DOMAIN KNOWN_DIST_PREFIXES
    THEN KNOWN_DIST_PREFIXES[d.project_name]
    ELSE <<>>

\* the inner loop: prefixes[prefix] = d for every prefix that is not blank
RECURSIVE AddPrefixes(_, _, _)
AddPrefixes(prefixes, names, d) ==
    IF names = <<>> THEN prefixes
    ELSE AddPrefixes(IF Head(names) # <<"">>
                     THEN DictSet(prefixes, Head(names), d)
                     ELSE prefixes,
                     Tail(names), d)

RECURSIVE ScanDists(_, _)
ScanDists(prefixes, ws) ==
    IF ws = <<>> THEN prefixes
    ELSE ScanDists(AddPrefixes(prefixes, ModulePrefixes(Head(ws)), Head(ws)), Tail(ws))

build_dist_prefixes(ws) == ScanDists(EmptyDict, ws)

\* the while loop of find_dist over a module name that is a string
RECURSIVE FindInIndex(_, _)
FindInIndex(index, name) ==
    IF name = <<"">> THEN NoDist
    ELSE IF name \in DOMAIN index THEN index[name]
    ELSE IF Len(name) < 2 THEN NoDist
    ELSE FindInIndex(index, SubSeq(name, 1, Len(name) - 1))

\* the first two lines of a find_dist that tests "if not DIST_PREFIXES"
AfterBuildIfFalsy(dp, answer) ==
    IF dp.built /\ dp.index # EmptyDict THEN dp
    ELSE IF answer.ok THEN [built |-> TRUE, index |-> build_dist_prefixes(answer.ws)]
    ELSE dp

\* DIST_PREFIXES after find_dist's first two lines
AfterBuild(dp, answer) ==
    IF dp.built THEN dp
    ELSE IF answer.ok THEN [built |-> TRUE, index |-> build_dist_prefixes(answer.ws)]
    ELSE dp

\* find_dist(module_name) raises: the build fails, or the name cannot be split
FindDistRaises(dp, arg, answer) ==
    \/ ~dp.built /\ ~answer.ok
    \/ arg.t # "str" /\ Truthy(arg)

\* find_dist(module_name) returns
find_dist(dp, arg, answer) ==
    IF arg.t = "str" THEN FindInIndex(AfterBuild(dp, answer).index, arg.v) ELSE NoDist

----------------------------------------------------------------------------
\* find_dist, one step for each test of its while loop

\* Components a module name is made of ("" stands between two dots, or
\* before a leading or after a trailing one), and how many it may have.
MaxNameLen == 3
Components == {"a", "b", ""}
ModuleNames == UNION {[1..n -> Components] : n \in 1..MaxNameLen}

\* Distributions installed, each with one line in its top_level.txt
MaxDists == 2
TopLevelLines == UNION {[1..n -> {"a", "b"}] : n \in 1..2} \cup {<<"">>, <<"a", "">>}
Installed == {Dist("D", <<l>>, JStr(<<"1.0">>)) : l \in TopLevelLines}
InstalledSets == UNION {[1..n -> Installed] : n \in 0..MaxDists}
ScanAnswers == {[ok |-> FALSE, ws |-> <<>>]} \cup {[ok |-> TRUE, ws |-> w] : w \in InstalledSets}

\* find_dist(name) is called, nothing else runs
FindInit ==
    /\ input = <<>>
    /\ stream = <<>>
    /\ ending = "eof"
    /\ consumed = 0
    /\ pc = "find_dist"
    /\ fault = ""
    /\ line = <<>>
    /\ headers = EmptyDict
    /\ length = 0
    /\ body = <<>>
    /\ request = NoRequest
    /\ handlers = Registry
    /\ DIST_PREFIXES = NotBuilt
    /\ out = <<>>
    /\ served = <<>>
    /\ invoked = <<>>
    /\ \E name \in ModuleNames :
          find = [pc |-> "start", arg |-> name, module_name |-> name, d |-> NoDist, rounds |-> 0]

FindFrame == UNCHANGED <<transport, request, handlers, history, pc, fault>>

\* if DIST_PREFIXES is None: DIST_PREFIXES = build_dist_prefixes()
FindBuild(answer) ==
    /\ find.pc = "start"
    /\ answer.ok
    /\ DIST_PREFIXES' = AfterBuild(DIST_PREFIXES, answer)
    /\ find' = [find EXCEPT !.pc = "loop"]
    /\ FindFrame

\* build_dist_prefixes raises: so does find_dist
FindBuildFails(answer) ==
    /\ find.pc = "start"
    /\ ~DIST_PREFIXES.built
    /\ ~answer.ok
    /\ DIST_PREFIXES' = AfterBuild(DIST_PREFIXES, answer)
    /\ find' = [find EXCEPT !.pc = "raised"]
    /\ FindFrame

\* if not module_name: return None
FindEmptyName ==
    /\ find.pc = "loop"
    /\ find.module_name = <<"">>
    /\ find' = [find EXCEPT !.pc = "done", !.d = NoDist]
    /\ UNCHANGED DIST_PREFIXES
    /\ FindFrame

\* d = DIST_PREFIXES.get(module_name, None); if d: return d
FindHit ==
    /\ find.pc = "loop"
    /\ find.module_name # <<"">>
    /\ find.module_name \in DOMAIN DIST_PREFIXES.index
    /\ find' = [find EXCEPT !.pc = "done", !.d = DIST_PREFIXES.index[find.module_name]]
    /\ UNCHANGED DIST_PREFIXES
    /\ FindFrame

\* split = module_name.split("."); if len(split) < 2: return None
FindNoDot ==
    /\ find.pc = "loop"
    /\ find.module_name # <<"">>
    /\ find.module_name \notin DOMAIN DIST_PREFIXES.index
    /\ Len(find.module_name) < 2
    /\ find' = [find EXCEPT !.pc = "done", !.d = NoDist]
    /\ UNCHANGED DIST_PREFIXES
    /\ FindFrame

\* a loop that goes on with split[0], the top-level package
FindShortenToTop ==
    /\ find.pc = "loop"
    /\ find.module_name # <<"">>
    /\ find.module_name \notin DOMAIN DIST_PREFIXES.index
    /\ Len(find.module_name) >= 2
    /\ find' = [find EXCEPT !.module_name = SubSeq(find.module_name, 1, 1),
                            !.rounds = find.rounds + 1]
    /\ UNCHANGED DIST_PREFIXES
    /\ FindFrame

\* module_name = ".".join(split[:-1])
FindShorten ==
    /\ find.pc = "loop"
    /\ find.module_name # <<"">>
    /\ find.module_name \notin DOMAIN DIST_PREFIXES.index
    /\ Len(find.module_name) >= 2
    /\ find' = [find EXCEPT !.module_name = SubSeq(find.module_name, 1, Len(find.module_name) - 1),
                            !.rounds = find.rounds + 1]
    /\ UNCHANGED DIST_PREFIXES
    /\ FindFrame

FindNext ==
    \/ \E answer \in ScanAnswers : FindBuild(answer)
    \/ \E answer \in ScanAnswers : FindBuildFails(answer)
    \/ FindEmptyName
    \/ FindHit
    \/ FindNoDot
    \/ FindShorten

FindSpec == FindInit /\ [][FindNext]_vars

----------------------------------------------------------------------------
\* The handlers

\* importlib.import_module(module_name) and the module's __version__
ImportAnswers ==
    {[ok |-> FALSE, version |-> None]} \cup
    {[ok |-> TRUE, version |-> v] : v \in {None, JStr(<<"3.2">>), PyObject}}

\* what import_module and inspect.getmembers answer to module_member_names
MemberAnswers == {"import_fails", "getmembers_raises", "members", "members_bad_all"}

\* str(e) of what inspect.getmembers raises: a text with characters that
\* are not ASCII
GetMembersFault == <<"getmembers failed: ", "e-acute", "euro">>

Returned(v) == [kind |-> "return", value |-> v, text |-> <<>>]
Raised(text) == [kind |-> "raise", value |-> None, text |-> text]

cancel_request(arg) == Returned(None)

\* module_member_names without the try around import_module
MemberNamesImportRaises(arg, answer) ==
    CASE answer = "import_fails" -> Raised(<<"No module named m">>)
      [] answer = "getmembers_raises" -> Raised(GetMembersFault)
      [] answer = "members" -> Returned(MembersDict)
      [] answer = "members_bad_all" -> Returned(MembersDictBadAll)

module_member_names(arg, answer) ==
    CASE answer = "import_fails" -> Returned(None)
      [] answer = "getmembers_raises" -> Raised(GetMembersFault)
      [] answer = "members" -> Returned(MembersDict)
      [] answer = "members_bad_all" -> Returned(MembersDictBadAll)

\* version after the first try block
ImportedVersion(imp) == IF imp.ok THEN imp.version ELSE None

\* module_version calls find_dist
NeedsDist(imp) == ~Truthy(ImportedVersion(imp))

\* what find_dist did with the index when module_version ran: it was not
\* called, it read the index built before, it built it, or the build failed
IndexUse(dp, imp, build) ==
    IF ~NeedsDist(imp) THEN "not called"
    ELSE IF dp.built THEN "read"
    ELSE IF build.ok THEN "built"
    ELSE "build failed"

module_version(dp, arg, imp, build) ==
    IF ~NeedsDist(imp) THEN Returned(ImportedVersion(imp))
    ELSE IF FindDistRaises(dp, arg, build) THEN Returned(ImportedVersion(imp))
    ELSE IF find_dist(dp, arg, build) # NoDist
    THEN Returned(find_dist(dp, arg, build).version)
    ELSE Returned(ImportedVersion(imp))

----------------------------------------------------------------------------
\* write_response, Request.write_result, Request.write_error

\* a write_result that leaves "result" out when the handler returned None
ResultPayloadOmitsNone(v) ==
    [keys |-> IF v = None THEN {} ELSE {"result"}, result |-> v, code |-> 0, message |-> <<>>]

\* a write_response that stamps every response with the id "1" as a string
NewResponseTextId(id, d) ==
    [keys |-> {"jsonrpc", "id"} \cup d.keys, id |-> JStr(<<"1">>),
     result |-> d.result, code |-> d.code, message |-> d.message]

ResultPayload(v) == [keys |-> {"result"}, result |-> v, code |-> 0, message |-> <<>>]
ErrorPayload(code, message) ==
    [keys |-> {"error"}, result |-> None, code |-> code, message |-> message]

\* response = {"jsonrpc": "2.0", "id": id}; response.update(d)
NewResponse(id, d) ==
    [keys |-> {"jsonrpc", "id"} \cup d.keys, id |-> id,
     result |-> d.result, code |-> d.code, message |-> d.message]

\* json.dumps(response) succeeds
Dumps(d) == Encodable(d.result)

\* Text is a sequence of characters.  A character is a symbol: one of the
\* two below, which are not ASCII, or a run of ASCII characters that counts
\* as one character and, encoded, as one byte.
NonAscii == {"e-acute", "euro"}

\* the four hexadecimal digits of the character's code point
CodePoint(c) == IF c = "e-acute" THEN <<"0", "0", "e", "9">> ELSE <<"2", "0", "a", "c">>

\* json.dumps with ensure_ascii=False: every character is written as it is
EscapeNothing(c) == <<c>>

\* json.dumps writes a character of a string: ensure_ascii is True, so one
\* that is not ASCII becomes a \uXXXX escape of six ASCII characters
Escape(c) == IF c \in NonAscii THEN <<"\\", "u">> \o CodePoint(c) ELSE <<c>>

RECURSIVE EscapeAll(_)
EscapeAll(text) == IF text = <<>> THEN <<>> ELSE Escape(Head(text)) \o EscapeAll(Tail(text))

\* the text of a dotted name: its components with "." between them
RECURSIVE Dotted(_)
Dotted(parts) ==
    IF Len(parts) <= 1 THEN parts
    ELSE <<Head(parts), ".">> \o Dotted(Tail(parts))

Quoted(text) == <<"\"">> \o EscapeAll(text) \o <<"\"">>

\* json.dumps of a value that json can encode
DumpsValue(v) ==
    CASE v.t = "null" -> <<"null">>
      [] v.t = "num" -> v.v
      [] v.t = "str" -> Quoted(Dotted(v.v))
      [] v.t = "list" -> <<"[", "]">>
      [] OTHER -> <<"{", "\"members\": [], \"all\": null", "}">>

\* "{}".format(code) of a negative integer
IntText(code) == <<"-">> \o Decimal(0 - code)

\* s = json.dumps(response)
json_dumps(response) ==
    <<"{", "\"jsonrpc\": \"2.0\"", ", ", "\"id\": ">> \o DumpsValue(response.id)
    \o (IF "result" \in response.keys
        THEN <<", ", "\"result\": ">> \o DumpsValue(response.result)
        ELSE <<>>)
    \o (IF "error" \in response.keys
        THEN <<", ", "\"error\": ", "{", "\"code\": ">> \o IntText(response.code)
             \o <<", ", "\"message\": ">> \o Quoted(response.message) \o <<"}">>
        ELSE <<>>)
    \o <<"}">>

\* data.encode("utf-8") of one character
Utf8Char(c) ==
    CASE c = "e-acute" -> <<"0xC3", "0xA9">>
      [] c = "euro" -> <<"0xE2", "0x82", "0xAC">>
      [] OTHER -> <<c>>

RECURSIVE Utf8(_)
Utf8(text) == IF text = <<>> THEN <<>> ELSE Utf8Char(Head(text)) \o Utf8(Tail(text))

\* data = "Content-Length: {}\r\n\r\n".format(len(s)) + s, and what
\* write_stdout writes of it
ResponseFrame(response) ==
    Utf8(LengthLine(Len(json_dumps(response))) \o CRLF \o CRLF \o json_dumps(response))

\* the same with a headers dict that read_request does not make anew
RespondKeepsHeaders(d) ==
    /\ out' = Append(out, [response |-> NewResponse(request.id, d),
                           frame |-> ResponseFrame(NewResponse(request.id, d)),
                           at |-> consumed, req |-> Len(served)])
    /\ pc' = "header"
    /\ fault' = fault
    /\ headers' = headers

\* write_stdout(data): the frame is written and flushed; Mux.handle returns,
\* main() asks the generator for the next request and read_request starts
\* with headers = dict()
Respond(d) ==
    /\ out' = Append(out, [response |-> NewResponse(request.id, d),
                           frame |-> ResponseFrame(NewResponse(request.id, d)),
                           at |-> consumed, req |-> Len(served)])
    /\ pc' = "header"
    /\ fault' = fault
    /\ headers' = EmptyDict

\* json.dumps raises TypeError: nothing is written, the exception leaves
\* Mux.handle and main()
DumpsFails ==
    /\ out' = out
    /\ pc' = "fault"
    /\ fault' = "TypeError"
    /\ headers' = headers

\* request.write_result(result) / request.write_error(code, message)
WriteResponse(d) == IF Dumps(d) THEN Respond(d) ELSE DumpsFails

----------------------------------------------------------------------------
\* Mux.handle

\* self.handlers.get(request.method, None): "" is None
Lookup(h, method) ==
    IF method.t = "str" /\ Len(method.v) = 1 /\ method.v[1] \in DOMAIN h
    THEN h[method.v[1]]
    ELSE ""

\* what handler(*request.params) raises before the handler's body runs
\* (every handler takes one positional argument), <<>> when nothing
BindFault(params) ==
    CASE params.kind # "list" -> <<"argument after * must be an iterable, not NoneType">>
      [] Len(params.items) = 0 -> <<"missing 1 required positional argument">>
      [] Len(params.items) > 1 -> <<"takes 1 positional argument but more were given">>
      [] OTHER -> <<>>

Arg == request.params.items[1]

\* Mux.handle without the try: what the handler raises leaves Mux.handle
OutcomeUncaught(o) ==
    IF o.kind = "raise"
    THEN out' = out /\ pc' = "fault" /\ fault' = "Exception" /\ headers' = headers
    ELSE WriteResponse(ResultPayload(o.value))

\* the try/except/else of Mux.handle around a handler's outcome
Outcome(o) ==
    IF o.kind = "raise"
    THEN WriteResponse(ErrorPayload(INTERNAL_ERROR, o.text))
    ELSE WriteResponse(ResultPayload(o.value))

\* the log of the calls of line 149, each with what it did
CalledWith(name, o, answer) ==
    invoked' = Append(invoked, [handler |-> name, args |-> request.params.items,
                                outcome |-> o, env |-> answer, req |-> Len(served)])

Called(name, o) == CalledWith(name, o, "")

Dispatching(name) ==
    /\ pc = "dispatch"
    /\ Hashable(request.method)
    /\ Lookup(handlers, request.method) = name

\* the method is of a type that cannot be a dict key: handlers.get raises
HandleUnhashable ==
    /\ pc = "dispatch"
    /\ ~Hashable(request.method)
    /\ pc' = "fault"
    /\ fault' = "TypeError"
    /\ UNCHANGED <<transport, find, dispatcher, history>>

\* Mux.handle without the "return" after write_error: it goes on to call
\* the handler, which is None; the TypeError is caught and reported as well
HandleNotFoundNoReturn ==
    /\ Dispatching("")
    /\ out' = out \o
          <<[response |-> NewResponse(request.id,
                 ErrorPayload(METHOD_NOT_FOUND,
                              <<"method ">> \o Text(request.method) \o <<" not found">>)),
             frame |-> ResponseFrame(NewResponse(request.id,
                 ErrorPayload(METHOD_NOT_FOUND,
                              <<"method ">> \o Text(request.method) \o <<" not found">>))),
             at |-> consumed, req |-> Len(served)],
            [response |-> NewResponse(request.id,
                 ErrorPayload(INTERNAL_ERROR, <<"'NoneType' object is not callable">>)),
             frame |-> ResponseFrame(NewResponse(request.id,
                 ErrorPayload(INTERNAL_ERROR, <<"'NoneType' object is not callable">>))),
             at |-> consumed, req |-> Len(served)]>>
    /\ pc' = "header"
    /\ fault' = fault
    /\ headers' = EmptyDict
    /\ UNCHANGED <<input, ending, stream, find, consumed, line, length, body, dispatcher, served, invoked>>

HandleNotFound ==
    /\ Dispatching("")
    /\ WriteResponse(ErrorPayload(METHOD_NOT_FOUND,
                                  <<"method ">> \o Text(request.method) \o <<" not found">>))
    /\ UNCHANGED <<input, ending, stream, find, consumed, line, length, body, dispatcher, served, invoked>>

\* the call itself raises TypeError, inside the try
HandleBindFault ==
    /\ pc = "dispatch"
    /\ Hashable(request.method)
    /\ Lookup(handlers, request.method) # ""
    /\ BindFault(request.params) # <<>>
    /\ Called(Lookup(handlers, request.method), Raised(BindFault(request.params)))
    /\ Outcome(Raised(BindFault(request.params)))
    /\ UNCHANGED <<input, ending, stream, find, consumed, line, length, body, dispatcher, served>>

\* a cancel_request that takes itself out of mux.handlers
HandleCancelUnregisters ==
    /\ Dispatching("cancel_request")
    /\ BindFault(request.params) = <<>>
    /\ Called("cancel_request", cancel_request(Arg))
    /\ Outcome(cancel_request(Arg))
    /\ handlers' = [m \in DOMAIN handlers \ {request.method.v[1]} |-> handlers[m]]
    /\ UNCHANGED <<input, ending, stream, find, consumed, line, length, body, request, DIST_PREFIXES, served>>

HandleCancel ==
    /\ Dispatching("cancel_request")
    /\ BindFault(request.params) = <<>>
    /\ Called("cancel_request", cancel_request(Arg))
    /\ Outcome(cancel_request(Arg))
    /\ UNCHANGED <<input, ending, stream, find, consumed, line, length, body, dispatcher, served>>

HandleMemberNames(answer) ==
    /\ Dispatching("module_member_names")
    /\ BindFault(request.params) = <<>>
    /\ CalledWith("module_member_names", module_member_names(Arg, answer), answer)
    /\ Outcome(module_member_names(Arg, answer))
    /\ UNCHANGED <<input, ending, stream, find, consumed, line, length, body, dispatcher, served>>

HandleVersion(imp, build) ==
    /\ Dispatching("module_version")
    /\ BindFault(request.params) = <<>>
    /\ CalledWith("module_version", module_version(DIST_PREFIXES, Arg, imp, build),
                  IndexUse(DIST_PREFIXES, imp, build))
    /\ DIST_PREFIXES' = IF NeedsDist(imp) THEN AfterBuild(DIST_PREFIXES, build)
                        ELSE DIST_PREFIXES
    /\ Outcome(module_version(DIST_PREFIXES, Arg, imp, build))
    /\ UNCHANGED <<input, ending, stream, find, consumed, line, length, body, request, handlers, served>>

----------------------------------------------------------------------------

Next ==
    \/ ReadLineFails
    \/ ReadLineEOF
    \/ ReadLinePartial
    \/ ReadHeaderLine
    \/ ReadBlankLine
    \/ \E k \in 1..Len(input) : ReadBody(k)
    \/ ReadBodyEOF
    \/ ReadBodyFails
    \/ Decode
    \/ HandleUnhashable
    \/ HandleNotFound
    \/ HandleBindFault
    \/ HandleCancel
    \/ \E answer \in MemberAnswers : HandleMemberNames(answer)
    \/ \E imp \in ImportAnswers, build \in BuildAnswers : HandleVersion(imp, build)

Spec == Init /\ [][Next]_vars

\* the process keeps running: a step that can be taken is taken
FairSpec == Spec /\ WF_vars(Next)

Stopped == pc \in {"closed", "fault"}

----------------------------------------------------------------------------
\* Properties

\* the request with index i has been handled: Mux.handle is not running on it
Handled(i) == i \in DOMAIN served /\ (i < Len(served) \/ pc # "dispatch")

ResponsesTo(i) == {j \in DOMAIN out : out[j].req = i}
CallsFor(i) == {j \in DOMAIN invoked : invoked[j].req = i}

IsResult(r) == "result" \in r.keys /\ "error" \notin r.keys
IsError(r) == "error" \in r.keys /\ "result" \notin r.keys

\* C1: for well-formed request frames the loop writes exactly one response
\* per request, in the order the requests were read, each before any byte of
\* the next request is read; no request is dropped.
C1_OneResponsePerRequestInOrder ==
    (\A i \in DOMAIN served : served[i].request.method.t = "str") =>
        /\ Len(out) <= Len(served)
        /\ pc # "dispatch" => Len(out) = Len(served)
        /\ \A k \in DOMAIN out :
              /\ out[k].req = k
              /\ out[k].response.id = served[k].request.id
              /\ out[k].at = served[k].at

\* C2: a fault raised while a registered handler is invoked does not leave
\* Mux.handle: the step writes one error response with code -32603 and the
\* fault's text, no result response, and the loop goes on to the next frame;
\* at all times such a request has that one response and no other.
C2_Step ==
    (/\ Len(invoked') = Len(invoked) + 1
     /\ invoked'[Len(invoked')].outcome.kind = "raise")
    => /\ pc = "dispatch" /\ pc' = "header" /\ fault' = ""
       /\ handlers' = handlers
       /\ out' = Append(out, out'[Len(out')])
       /\ out'[Len(out')].req = Len(served)
       /\ out'[Len(out')].response.id = request.id
       /\ IsError(out'[Len(out')].response)
       /\ out'[Len(out')].response.code = INTERNAL_ERROR
       /\ out'[Len(out')].response.message = invoked'[Len(invoked')].outcome.text

C2_Always ==
    \A c \in DOMAIN invoked :
        invoked[c].outcome.kind = "raise" =>
            /\ Cardinality(ResponsesTo(invoked[c].req)) = 1
            /\ \A j \in ResponsesTo(invoked[c].req) :
                  /\ IsError(out[j].response)
                  /\ out[j].response.code = -32603
                  /\ out[j].response.message = invoked[c].outcome.text

C2_HandlerFaultIsolated == [][C2_Step]_vars /\ []C2_Always

\* a handler has raised, its request has its error response, and a later
\* request has been dispatched and answered
C2_Witness ==
    \E c \in DOMAIN invoked :
        /\ invoked[c].outcome.kind = "raise"
        /\ invoked[c].outcome.text = GetMembersFault
        /\ \E j \in DOMAIN out : out[j].req = invoked[c].req + 1

\* C3: a request whose method is not a key of the registry gets exactly one
\* error response with code -32601 and message "method <method> not found",
\* no handler is invoked for it, and the loop goes on to the next frame.
Unregistered(m) == Hashable(m) /\ (m.t = "str" => m.v \notin {<<k>> : k \in DOMAIN handlers})

C3_Step ==
    (pc = "dispatch" /\ Unregistered(request.method))
    => /\ pc' = "header" /\ fault' = ""
       /\ invoked' = invoked
       /\ Len(out') = Len(out) + 1

C3_Always ==
    \A i \in DOMAIN served :
        (Handled(i) /\ Unregistered(served[i].request.method)) =>
            /\ Cardinality(ResponsesTo(i)) = 1
            /\ CallsFor(i) = {}
            /\ \A j \in ResponsesTo(i) :
                  /\ IsError(out[j].response)
                  /\ out[j].response.id = served[i].request.id
                  /\ out[j].response.code = -32601
                  /\ out[j].response.message =
                        <<"method ">> \o served[i].request.method.v \o <<" not found">>

C3_MethodNotFound == [][C3_Step]_vars /\ []C3_Always

\* an unknown method has been answered and the request after it as well
C3_Witness ==
    \E i \in DOMAIN served :
        /\ served[i].request.method = JStr(<<"noSuchMethod">>)
        /\ ResponsesTo(i) # {}
        /\ ResponsesTo(i + 1) # {}

\* C4: once a request is decoded nothing ends the loop before its response
\* is written: whenever Mux.handle is not running, every decoded request has
\* its response (a fault that ends the loop is a framing fault).
C4_OnlyFramingFaultsEndTheLoop ==
    pc # "dispatch" => \A i \in DOMAIN served : Cardinality(ResponsesTo(i)) = 1

\* C5: a body that is a JSON object with an id and without a method does not
\* end the loop with a fault.
C5_MissingMethodIsNotFatal ==
    ~(/\ pc = "fault" /\ fault = "KeyError" /\ length = 0
      /\ IsJSON(body) /\ body # ArrayDoc
      /\ "id" \in Keys(body)
      /\ "method" \notin Keys(body))

\* C6: a request without params is answered as the same request with
\* params: [] is.
C6_AbsentParamsAsEmptyList ==
    \A i, j \in DOMAIN served :
        (/\ Handled(i) /\ Handled(j)
         /\ served[i].request.id = served[j].request.id
         /\ served[i].request.method = served[j].request.method
         /\ served[i].request.params = NoParams
         /\ served[j].request.params = ListParams(<<>>))
        => {out[k].response : k \in ResponsesTo(i)} = {out[k].response : k \in ResponsesTo(j)}

\* C7 as stated: a request with method cancelRequest and params [null] gets
\* a response with its id, with a result field and without an error field.
CancelAnswered(name) ==
    \A i \in DOMAIN served :
        (/\ Handled(i)
         /\ served[i].request.method = JStr(<<name>>)
         /\ served[i].request.params = ListParams(<<JNull>>))
        => /\ Cardinality(ResponsesTo(i)) = 1
           /\ \A j \in ResponsesTo(i) :
                 /\ out[j].response.id = served[i].request.id
                 /\ IsResult(out[j].response)

C7_CancelRequestSucceeds == CancelAnswered("cancelRequest")

\* C7 amended: the method registered at process start is $/cancelRequest; a
\* request with that method and params [null] gets a response with its id,
\* with a result field and without an error field.
C7_DollarCancelRequestSucceeds == CancelAnswered("$/cancelRequest")

C7_Witness ==
    \E i \in DOMAIN served :
        /\ served[i].request.method = JStr(<<"$/cancelRequest">>)
        /\ served[i].request.params = ListParams(<<JNull>>)
        /\ \E j \in ResponsesTo(i) : IsResult(out[j].response)

\* C8: once the input is at end-of-stream the loop stops: as long as it has
\* not stopped, it can take a step that changes its state.
AtEndOfStream == input = <<>> /\ ending = "eof"

C8_StopsAtEndOfStream == (AtEndOfStream /\ ~Stopped) => ENABLED <<Next>>_vars

\* C9 as stated: the loop returns without a fault only from the header loop
\* and only on end-of-stream.
C9_ClosedOnlyOnEndOfStream ==
    [][(pc' = "closed" /\ pc # "closed") => (pc = "header" /\ AtEndOfStream)]_vars

\* C9 amended: the loop returns without a fault only from the header loop,
\* on end-of-stream with no partial line pending or on a failed read of a
\* header line; a fault while awaiting the body or while dispatching ends
\* the loop with a fault, which the caller tells apart from closure.
C9_Step ==
    /\ (pc' = "closed" /\ pc # "closed") =>
          /\ pc = "header"
          /\ fault' = ""
          /\ \/ AtEndOfStream /\ line = <<>>
             \/ ending = "error" /\ ~HasLF(input)
    /\ (pc \in {"body", "dispatch"} /\ pc' \notin {"body", "dispatch", "header"}) =>
          pc' = "fault" /\ fault' # ""

C9_ClosedOnlyFromHeader ==
    [][C9_Step]_vars /\ [](pc = "closed" => fault = "") /\ [](pc = "fault" => fault # "")

\* the loop has returned after a request was answered
C9_Witness == pc = "closed" /\ fault = "" /\ Len(out) = 1

\* C10: when the input is closed before any byte is sent, the loop ends
\* without a fault, without a handler call and without output.
NothingSent == consumed = 0 /\ AtEndOfStream

C10_Always ==
    NothingSent =>
        /\ pc \in {"header", "closed"}
        /\ fault = "" /\ out = <<>> /\ invoked = <<>>
        /\ pc = "header" => ENABLED <<Next>>_vars

C10_Step ==
    NothingSent => (pc' = "closed" /\ fault' = "" /\ out' = <<>> /\ invoked' = <<>>)

C10_CleanShutdownOnEmptyInput == [][C10_Step]_vars /\ []C10_Always

C10_Witness == NothingSent /\ pc = "closed" /\ out = <<>> /\ invoked = <<>>

----------------------------------------------------------------------------
\* The frame that is being read, as read_request reads it from its first byte

\* the frame being read, or decoded last, starts after this many bytes
FrameStart == IF out = <<>> THEN 0 ELSE out[Len(out)].at

FrameHeaders == ReadHeaders(Drop(stream, FrameStart), EmptyDict)

\* the bytes read when the blank line of the frame has been read
HeaderEnd == Len(stream) - Len(FrameHeaders.rest)

\* the header block of the frame is whole and gives no usable Content-Length
LacksLength ==
    /\ FrameHeaders.fault = ""
    /\ \/ ContentLength \notin DOMAIN FrameHeaders.headers
       \/ ~IsInt(FrameHeaders.headers[ContentLength])

\* C11: a frame whose header block ends without a Content-Length header, or
\* with one whose value is no number, ends the loop with a fault: the step
\* that reads its blank line raises, no byte of its body is read, nothing is
\* written, no handler is called, and no step follows.
C11_Step ==
    (pc = "header" /\ LacksLength /\ consumed < HeaderEnd /\ consumed' = HeaderEnd) =>
        /\ pc' = "fault"
        /\ fault' \in {"KeyError", "ValueError"}
        /\ body' = <<>>
        /\ input' = FrameHeaders.rest
        /\ out' = out /\ invoked' = invoked /\ served' = served

C11_Always ==
    (LacksLength /\ consumed >= HeaderEnd) =>
        /\ pc = "fault"
        /\ consumed = HeaderEnd
        /\ input = FrameHeaders.rest
        /\ ~ENABLED <<Next>>_vars

C11_NoLengthIsFatal == [][C11_Step]_vars /\ []C11_Always

C11_Witness ==
    /\ pc = "fault" /\ fault = "KeyError"
    /\ LacksLength /\ consumed = HeaderEnd
    /\ Len(out) = 1
    /\ input # <<>>

\* the text written has a member with this key
HasMember(text, key) == \E i \in 1..Len(text) : text[i] = key

\* C12: every response written has exactly one of "result" and "error", in
\* the dict and in the text written; a handler that returned None is
\* answered with a "result" that is null and no "error".
C12_ExactlyOneOfResultAndError ==
    /\ \A j \in DOMAIN out :
          /\ IsResult(out[j].response) \/ IsError(out[j].response)
          /\ HasMember(json_dumps(out[j].response), "\"result\": ")
                # HasMember(json_dumps(out[j].response), "\"error\": ")
          /\ HasMember(json_dumps(out[j].response), "\"result\": ")
                = IsResult(out[j].response)
    /\ \A c \in DOMAIN invoked :
          (invoked[c].outcome = Returned(None) /\ Handled(invoked[c].req)) =>
              /\ Cardinality(ResponsesTo(invoked[c].req)) = 1
              /\ \A j \in ResponsesTo(invoked[c].req) :
                    /\ IsResult(out[j].response)
                    /\ out[j].response.result = JNull

C12_Witness ==
    /\ Len(out) = 2 /\ Len(invoked) = 2
    /\ IsError(out[1].response)
    /\ invoked[2].outcome = Returned(None)
    /\ IsResult(out[2].response) /\ out[2].response.result = JNull

\* C13: every response carries the id of the request Mux.handle is running
\* on when it is written, the same value of the same type, whatever was
\* handled before.
C13_Step ==
    (out' # out) =>
        /\ pc = "dispatch"
        /\ \A j \in (Len(out) + 1)..Len(out') :
              /\ out'[j].response.id = request.id
              /\ out'[j].req = Len(served)
              /\ out'[j].response.id = served[Len(served)].request.id

C13_Always ==
    \A j \in DOMAIN out :
        /\ out[j].req \in DOMAIN served
        /\ out[j].response.id = served[out[j].req].request.id
        /\ out[j].response.id.t = served[out[j].req].request.id.t
        /\ HasMember(out[j].frame, "\"id\": ")
        /\ \E i \in 1..Len(out[j].frame) :
              /\ out[j].frame[i] = "\"id\": "
              /\ SubSeq(out[j].frame, i + 1, i + Len(DumpsValue(served[out[j].req].request.id)))
                    = DumpsValue(served[out[j].req].request.id)

C13_IdEchoed == [][C13_Step]_vars /\ []C13_Always

C13_Witness ==
    /\ Len(out) = 2
    /\ out[1].response.id = JStr(<<"x">>)
    /\ out[2].response.id = JNum("1")

\* C14: every frame written is "Content-Length: N", CRLF, CRLF and then
\* exactly N bytes, N the number of bytes of the encoded body, also when the
\* response has text that is not ASCII; read_request on the frame reads the
\* same body bytes and leaves nothing.
C14_FrameRoundTrip ==
    \A j \in DOMAIN out :
        /\ out[j].frame = LengthLine(Len(Utf8(json_dumps(out[j].response)))) \o CRLF \o CRLF
                             \o Utf8(json_dumps(out[j].response))
        /\ ReadFrame(out[j].frame).fault = ""
        /\ ReadFrame(out[j].frame).length = Len(Utf8(json_dumps(out[j].response)))
        /\ ReadFrame(out[j].frame).body = Utf8(json_dumps(out[j].response))
        /\ ReadFrame(out[j].frame).rest = <<>>

C14_Witness ==
    \E j \in DOMAIN out :
        /\ IsError(out[j].response)
        /\ \E i \in 1..Len(out[j].response.message) : out[j].response.message[i] \in NonAscii
        /\ ReadFrame(out[j].frame).length = Len(json_dumps(out[j].response))
        /\ ReadFrame(out[j].frame).length > Len(out[j].response.message) + 10

\* the call with index c is module_member_names on a module whose import fails
ImportFailed(log, c) ==
    log[c].handler = "module_member_names" /\ log[c].env = "import_fails"

\* C15: moduleMemberNames for a module whose import fails is answered with
\* one response that has "result": null and no "error", and the loop goes
\* on to read the next request.
C15_Step ==
    (Len(invoked') = Len(invoked) + 1 /\ ImportFailed(invoked', Len(invoked'))) =>
        /\ pc' = "header" /\ fault' = ""
        /\ Len(out') = Len(out) + 1
        /\ IsResult(out'[Len(out')].response)
        /\ out'[Len(out')].response.result = JNull
        /\ HasMember(out'[Len(out')].frame, "\"result\": ")
        /\ ~HasMember(out'[Len(out')].frame, "\"error\": ")

C15_Always ==
    \A c \in DOMAIN invoked :
        ImportFailed(invoked, c) =>
            /\ Cardinality(ResponsesTo(invoked[c].req)) = 1
            /\ \A j \in ResponsesTo(invoked[c].req) :
                  IsResult(out[j].response) /\ out[j].response.result = JNull

C15_ImportFailureIsNullResult == [][C15_Step]_vars /\ []C15_Always

C15_Witness ==
    /\ Len(invoked) >= 1 /\ ImportFailed(invoked, 1)
    /\ Len(served) = 2 /\ pc = "dispatch"

\* the frame that starts after the first `start` bytes of the stream
FrameAt(start) == ReadFrame(Drop(stream, start))

\* where the frame of the request with index j starts
StartOf(j) == IF j = 1 THEN 0 ELSE served[j - 1].at

\* C16: whatever the sizes of the reads, the body loop reads exactly
\* Content-Length bytes: while it runs, body is the bytes that follow the
\* blank line, in stream order, and length what is still missing; once a
\* request is decoded its body is the N bytes after the blank line and the
\* next byte read is the one after them.
C16_Always ==
    /\ input = Drop(stream, consumed)
    /\ pc = "body" =>
          /\ FrameAt(FrameStart).fault = ""
          /\ length >= 0
          /\ Len(body) + length = FrameAt(FrameStart).length
          /\ body = SubSeq(stream, HeaderEnd + 1, HeaderEnd + Len(body))
          /\ consumed = HeaderEnd + Len(body)
    /\ \A j \in DOMAIN served :
          /\ FrameAt(StartOf(j)).fault = ""
          /\ FrameAt(StartOf(j)).length > 0
          /\ Len(FrameAt(StartOf(j)).body) = FrameAt(StartOf(j)).length
          /\ served[j].request = NewRequest(FrameAt(StartOf(j)).body)
          /\ served[j].at = Len(stream) - Len(FrameAt(StartOf(j)).rest)
    /\ pc = "dispatch" =>
          /\ body = FrameAt(FrameStart).body
          /\ input = FrameAt(FrameStart).rest

C16_Step ==
    (pc = "body" /\ pc' = "body") =>
        /\ body' \o input' = body \o input
        /\ Len(body') - Len(body) = consumed' - consumed
        /\ Len(body') - Len(body) = length - length'
        /\ Len(body') - Len(body) <= length

C16_BodyIsExactlyLengthBytes == [][C16_Step]_vars /\ []C16_Always

\* the second request was read in short reads: one byte, then the rest
C16_Witness ==
    /\ Len(served) = 1 /\ Len(out) = 1
    /\ pc = "body"
    /\ Len(body) = 1 /\ length = 2
    /\ Len(input) >= 2

\* the header lines of the frame read so far, as a dict of their own
LinesSoFar ==
    ReadHeaders(SubSeq(stream, FrameStart + 1, consumed - Len(line)) \o CRLF, EmptyDict)

\* C17: the headers read_request uses are those of the lines of the frame
\* it is reading and no others; the length of the body is the frame's own
\* Content-Length, and a frame without one faults also after a frame that
\* had one.
C17_Always ==
    /\ pc = "header" => headers = LinesSoFar.headers
    /\ pc \in {"body", "dispatch"} =>
          /\ headers = FrameHeaders.headers
          /\ Len(body) + length = IntOf(FrameHeaders.headers[ContentLength])

C17_Step ==
    (pc = "header" /\ FrameHeaders.fault = "" /\ consumed < HeaderEnd /\ consumed' = HeaderEnd) =>
        /\ headers' = FrameHeaders.headers
        /\ IF LacksLength
           THEN pc' = "fault"
           ELSE pc' = "body" /\ length' = IntOf(FrameHeaders.headers[ContentLength])

C17_HeadersAreTheFramesOwn == [][C17_Step]_vars /\ []C17_Always

C17_Witness ==
    /\ Len(served) = 1 /\ Len(out) = 1
    /\ FrameAt(0).fault = "" /\ FrameAt(0).length > 0
    /\ pc = "fault" /\ consumed = HeaderEnd
    /\ ContentLength \notin DOMAIN headers
    /\ headers # EmptyDict

\* the handlers called for the request with index i
SelectedFor(i) == {invoked[c].handler : c \in CallsFor(i)}

\* C18: mux.handlers is what the three registrations made it, in every
\* state; no step changes it, and two requests with the same method that
\* have been handled had the same handler selected (or both none).
C18_Always ==
    /\ handlers = Registry
    /\ \A i \in DOMAIN served : \A j \in DOMAIN served :
          (Handled(i) /\ Handled(j) /\ pc # "fault"
             /\ served[i].request.method = served[j].request.method) =>
              /\ SelectedFor(i) = SelectedFor(j)
              /\ SelectedFor(i) = IF Lookup(Registry, served[i].request.method) = ""
                                  THEN {}
                                  ELSE {Lookup(Registry, served[i].request.method)}

C18_Step == handlers' = handlers

C18_RegistryIsFixed == [][C18_Step]_vars /\ []C18_Always

C18_Witness ==
    /\ Len(served) = 2 /\ Len(out) = 2 /\ Len(invoked) = 2
    /\ served[1].request.method = served[2].request.method
    /\ invoked[1].handler = "cancel_request"
    /\ invoked[2].handler = "cancel_request"

\* the lengths of the dotted prefixes of a name that are keys of an index
KeyPrefixes(name, index) == {k \in 1..Len(name) : SubSeq(name, 1, k) \in DOMAIN index}

Longest(ks) == CHOOSE k \in ks : \A m \in ks : m <= k

\* C19: find_dist comes to an end for every module name and every index, in
\* no more rounds than the name has dots; it returns the distribution under
\* the longest dotted prefix of the name that is a key of the index, and
\* None when the name is empty or has no such prefix.
C19_LongestPrefix ==
    /\ find.pc = "loop" =>
          /\ ENABLED <<FindNext>>_vars
          /\ find.rounds + Len(find.module_name) = Len(find.arg)
    /\ find.pc = "done" =>
          /\ find.d = IF find.arg = <<"">> \/ KeyPrefixes(find.arg, DIST_PREFIXES.index) = {}
                      THEN NoDist
                      ELSE DIST_PREFIXES.index[
                               SubSeq(find.arg, 1,
                                      Longest(KeyPrefixes(find.arg, DIST_PREFIXES.index)))]
          /\ find.d = FindInIndex(DIST_PREFIXES.index, find.arg)

\* a.b.x with both a and a.b in the index: a.b wins
C19_Witness ==
    /\ find.pc = "done"
    /\ Len(find.arg) = 3
    /\ find.rounds = 1
    /\ Cardinality(KeyPrefixes(find.arg, DIST_PREFIXES.index)) = 2
    /\ find.d = DIST_PREFIXES.index[SubSeq(find.arg, 1, 2)]

\* the calls of module_version in which find_dist ran, by what it did
FindDistCalls(use) ==
    {c \in DOMAIN invoked : invoked[c].handler = "module_version" /\ invoked[c].env = use}

\* C20: once a build has succeeded DIST_PREFIXES is never assigned again,
\* empty or not, and later calls of find_dist read it; a build that fails
\* leaves it unset, module_version returns the version it had (None or an
\* empty one) and the request is answered with it; while it is unset every
\* call of find_dist runs the build.
C20_Step ==
    /\ DIST_PREFIXES.built => DIST_PREFIXES' = DIST_PREFIXES
    /\ (Len(invoked') = Len(invoked) + 1
          /\ invoked'[Len(invoked')].handler = "module_version"
          /\ BindFault(request.params) = <<>>) =>
          /\ invoked'[Len(invoked')].env \in {"not called", "read", "built", "build failed"}
          /\ invoked'[Len(invoked')].env = "not called" =>
                /\ DIST_PREFIXES' = DIST_PREFIXES
                /\ Truthy(invoked'[Len(invoked')].outcome.value)
          /\ invoked'[Len(invoked')].env = "read" =>
                DIST_PREFIXES.built /\ DIST_PREFIXES' = DIST_PREFIXES
          /\ invoked'[Len(invoked')].env = "built" =>
                ~DIST_PREFIXES.built /\ DIST_PREFIXES'.built
          /\ invoked'[Len(invoked')].env = "build failed" =>
                /\ ~DIST_PREFIXES.built /\ DIST_PREFIXES' = NotBuilt
                /\ invoked'[Len(invoked')].outcome.kind = "return"
                /\ ~Truthy(invoked'[Len(invoked')].outcome.value)
                /\ pc' = "header" /\ fault' = ""
                /\ Len(out') = Len(out) + 1
                /\ IsResult(out'[Len(out')].response)
                /\ out'[Len(out')].response.result = invoked'[Len(invoked')].outcome.value

C20_Always ==
    /\ Cardinality(FindDistCalls("built")) <= 1
    /\ DIST_PREFIXES.built = (FindDistCalls("built") # {})
    /\ \A b \in FindDistCalls("built") :
          /\ \A r \in FindDistCalls("read") : b < r
          /\ \A f \in FindDistCalls("build failed") : f < b

C20_IndexBuiltOnce == [][C20_Step]_vars /\ []C20_Always

\* the index was built empty and the next call of find_dist read it
C20_Witness ==
    /\ Len(invoked) = 2
    /\ FindDistCalls("built") = {1} /\ FindDistCalls("read") = {2}
    /\ DIST_PREFIXES = [built |-> TRUE, index |-> EmptyDict]

\* a failed build was tried again by the next call
C20_Retried ==
    /\ Len(invoked) = 2
    /\ FindDistCalls("build failed") = {1} /\ FindDistCalls("built") = {2}

====
